---- MODULE Spec2Model ----
(***************************************************************************)
(* Model of the FeedScreen component (src/components/FeedScreen.tsx) and   *)
(* of the data/event functions it calls (src/unnamed/part_000):            *)
(* the feed load, the view-session tracker (currentIndexRef/viewStartRef), *)
(* the per-card like toggle and the interaction events handed to           *)
(* recordInteraction.                                                      *)
(*                                                                         *)
(* Indices are 0-based as in the source; restaurants is a TLA+ sequence,   *)
(* so restaurants[index] of the source is At(restaurants, index).          *)
(***************************************************************************)
EXTENDS Integers, Sequences, FiniteSets, TLC

\* ------------------------------------------------------------------ bounds
MaxFeedLen == 2
MaxTime == 2
MaxEvents == 2
MaxLoads == 2

\* --------------------------------------------------------------- variables
VARIABLES
  restaurants,   \* useState<Restaurant[]>: the feed, a sequence of place ids
  loading,       \* useState(true)
  error,         \* useState<string | null>
  viewStart,     \* viewStartRef.current
  currentIndex,  \* currentIndexRef.current
  liked,         \* ActionBar's useState(false), one per mounted card (by key)
  now,           \* Date.now()
  scrollIndex,   \* the page the FlatList is scrolled to
  loads,         \* the invocations of loadRestaurants: where each one stands
  nLoads,        \* how many invocations of loadRestaurants were started
  events,        \* the calls recordInteraction(placeId, action, timeSpentMs)
  writes,        \* where the k-th call of recordInteraction stands
  inserts,       \* the rows passed to supabase insert(), in the order issued
  lastOp,        \* the step taken last (history)
  session,       \* when and by what the open view session was started (history)
  reports,       \* the dominant-index reports since the feed was loaded (history)
  onlyReports    \* nothing but distinct valid reports happened since then (history)

vars == <<restaurants, loading, error, viewStart, currentIndex, liked, now,
          scrollIndex, loads, nLoads, events, writes, inserts, lastOp, session,
          reports, onlyReports>>
history == <<session, reports, onlyReports>>
sink == <<writes, inserts>>

\* ------------------------------------------------------------------ values
NullError == "<null>"
PermissionMessage == "Location permission is required to find nearby restaurants."
DefaultLoadMessage == "Failed to load restaurants"
DefaultFetchMessage == "Failed to fetch restaurants"
ServerMessage == "server error"

PlaceId(i) == 100 + i
PlaceIds == {PlaceId(i) : i \in 1..MaxFeedLen}

Ascending(n) == [i \in 1..n |-> PlaceId(i)]
Descending(n) == [i \in 1..n |-> PlaceId(n + 1 - i)]
\* the ordered lists the data source may return
Feeds == {Ascending(n) : n \in 0..MaxFeedLen} \cup {Descending(n) : n \in 2..MaxFeedLen}

\* what a rejected promise carries: an Error with a message, or something else
Thrown == {[isError |-> TRUE, message |-> m] : m \in {ServerMessage, ""}}
            \cup {[isError |-> FALSE, message |-> ""]}

\* the HTTP responses of the get-restaurants function
Responses ==
  {[ok |-> TRUE, hasRestaurants |-> TRUE, restaurants |-> f, hasError |-> FALSE, error |-> ""] :
      f \in Feeds}
  \cup {[ok |-> TRUE, hasRestaurants |-> FALSE, restaurants |-> <<>>, hasError |-> FALSE, error |-> ""]}
  \cup {[ok |-> FALSE, hasRestaurants |-> FALSE, restaurants |-> <<>>, hasError |-> h, error |-> m] :
      h \in BOOLEAN, m \in {ServerMessage}}

Actions == {"like", "skip", "unlike"}

\* ----------------------------------------------------------------- helpers
At(feed, index) == feed[index + 1]
ValidIndex(feed, index) == index \in 0..(Len(feed) - 1)
Range(feed) == {feed[i] : i \in 1..Len(feed)}
Min(a, b) == IF a < b THEN a ELSE b

\* the render guards of FeedScreen: which screen is shown
Falsy(e) == e = NullError \/ e = ""
Screen ==
  IF loading /\ Len(restaurants) = 0 THEN "loading"
  ELSE IF ~Falsy(error) /\ Len(restaurants) = 0 THEN "error"
  ELSE IF Len(restaurants) = 0 THEN "empty"
  ELSE "list"

Op(name, hasIndex, index) == [name |-> name, hasIndex |-> hasIndex, index |-> index]

\* fetchRestaurants: the value it resolves to, or what it throws
FetchRestaurants(response) ==
  IF ~response.ok
    THEN [throws |-> TRUE, data |-> <<>>,
          thrown |-> [isError |-> TRUE,
                      message |-> IF response.hasError THEN response.error
                                  ELSE DefaultFetchMessage]]
    ELSE [throws |-> FALSE,
          data |-> IF response.hasRestaurants THEN response.restaurants ELSE <<>>,
          thrown |-> [isError |-> FALSE, message |-> ""]]

\* the message the catch block of loadRestaurants stores
CatchMessage(e) == IF e.isError THEN e.message ELSE DefaultLoadMessage

\* ---------------------------------------------------- the list and its cards
\* setRestaurants(data): the FlatList is rendered only for a non-empty feed; a
\* card keeps its ActionBar state while a cell with its key stays mounted.
LikedAfter(data) ==
  [id \in PlaceIds |->
     liked[id] /\ Len(restaurants) > 0 /\ id \in Range(restaurants) /\ id \in Range(data)]
ScrollAfter(data) ==
  IF Len(data) = 0 \/ Len(restaurants) = 0 THEN 0 ELSE Min(scrollIndex, Len(data) - 1)

\* --------------------------------------------------------------------- Init
\* an invocation of loadRestaurants: where it stands, whether it called
\* fetchRestaurants, how it ended, the feed it passed to setRestaurants, and
\* whether another invocation was in flight while it ran
IdleLoad ==
  [pc |-> "idle", fetchCalled |-> FALSE, outcome |-> "none", wrote |-> <<>>,
   raced |-> FALSE]
StartedLoad ==
  [pc |-> "perm", fetchCalled |-> FALSE, outcome |-> "none", wrote |-> <<>>,
   raced |-> FALSE]

\* where a call of recordInteraction stands: "session" (await getSession),
\* "insert" (await insert) or "done" (returned or rejected). writes[k] is the
\* k-th call, made when events[k] was emitted: until then it holds the state
\* every call starts in.
AwaitingSession == "session"

Session(start, by) == [start |-> start, by |-> by]
Report(index, t) == [index |-> index, t |-> t]

\* the component after its first render and its mount effect (loadRestaurants())
Init ==
  /\ restaurants = <<>>
  /\ loading = TRUE
  /\ error = NullError
  /\ now = 0
  /\ viewStart = 0
  /\ currentIndex = 0
  /\ liked = [id \in PlaceIds |-> FALSE]
  /\ scrollIndex = 0
  /\ nLoads = 1
  /\ loads = [l \in 1..MaxLoads |-> IF l = 1 THEN StartedLoad ELSE IdleLoad]
  /\ events = <<>>
  /\ writes = [k \in 1..MaxEvents |-> AwaitingSession]
  /\ inserts = <<>>
  /\ lastOp = Op("mount", FALSE, 0)
  /\ session = Session(0, "mount")
  /\ reports = <<>>
  /\ onlyReports = FALSE

\* ---------------------------------------------------------------- the clock
Tick ==
  /\ now < MaxTime
  /\ now' = now + 1
  /\ lastOp' = Op("tick", FALSE, 0)
  /\ UNCHANGED sink
  /\ UNCHANGED <<restaurants, loading, error, viewStart, currentIndex, liked,
                 scrollIndex, loads, nLoads, events, history>>

\* ---------------------------------------------------------- loadRestaurants
\* the invocations of loadRestaurants that have not reached the end of finally
InFlight == {l \in 1..MaxLoads : loads[l].pc \notin {"idle", "done"}}

\* loadRestaurants() up to its first await
LoadRestaurants ==
  /\ nLoads < MaxLoads
  /\ nLoads' = nLoads + 1
  /\ loads' = [l \in 1..MaxLoads |->
                IF l = nLoads + 1 THEN [StartedLoad EXCEPT !.raced = InFlight # {}]
                ELSE IF l \in InFlight THEN [loads[l] EXCEPT !.raced = TRUE]
                ELSE loads[l]]
  /\ loading' = TRUE
  /\ error' = NullError
  /\ lastOp' = Op("load", TRUE, nLoads + 1)
  /\ UNCHANGED sink
  /\ UNCHANGED <<restaurants, viewStart, currentIndex, liked, now, scrollIndex,
                 events, history>>

\* the feed is gone: no view session, no report sequence
FeedCleared ==
  /\ reports' = <<>>
  /\ onlyReports' = FALSE
  /\ UNCHANGED session

\* the catch block without a finally: loading stays true
LoadFails_NoFinally(l, e) ==
  /\ error' = CatchMessage(e)
  /\ restaurants' = <<>>
  /\ liked' = LikedAfter(<<>>)
  /\ scrollIndex' = ScrollAfter(<<>>)
  /\ loads' = [loads EXCEPT ![l].pc = "done", ![l].outcome = "failed"]
  /\ lastOp' = Op("loadFailed", TRUE, l)
  /\ UNCHANGED sink
  /\ FeedCleared
  /\ UNCHANGED <<loading, viewStart, currentIndex, now, nLoads, events>>

\* the catch and finally blocks
LoadFails(l, e) ==
  /\ error' = CatchMessage(e)
  /\ restaurants' = <<>>
  /\ liked' = LikedAfter(<<>>)
  /\ scrollIndex' = ScrollAfter(<<>>)
  /\ loading' = FALSE
  /\ loads' = [loads EXCEPT ![l].pc = "done", ![l].outcome = "failed"]
  /\ lastOp' = Op("loadFailed", TRUE, l)
  /\ UNCHANGED sink
  /\ FeedCleared
  /\ UNCHANGED <<viewStart, currentIndex, now, nLoads, events>>

\* the status !== 'granted' branch without its return: the load goes on
PermissionDenied_NoReturn(l) ==
  /\ error' = PermissionMessage
  /\ restaurants' = <<>>
  /\ liked' = LikedAfter(<<>>)
  /\ scrollIndex' = ScrollAfter(<<>>)
  /\ loads' = [loads EXCEPT ![l].pc = "pos", ![l].outcome = "denied"]
  /\ lastOp' = Op("permissionDenied", TRUE, l)
  /\ UNCHANGED sink
  /\ FeedCleared
  /\ UNCHANGED <<loading, viewStart, currentIndex, now, nLoads, events>>

\* the status !== 'granted' branch and the finally block
PermissionDenied(l) ==
  /\ error' = PermissionMessage
  /\ restaurants' = <<>>
  /\ liked' = LikedAfter(<<>>)
  /\ scrollIndex' = ScrollAfter(<<>>)
  /\ loading' = FALSE
  /\ loads' = [loads EXCEPT ![l].pc = "done", ![l].outcome = "denied"]
  /\ lastOp' = Op("permissionDenied", TRUE, l)
  /\ UNCHANGED sink
  /\ FeedCleared
  /\ UNCHANGED <<viewStart, currentIndex, now, nLoads, events>>

\* await Location.requestForegroundPermissionsAsync() settles
PermissionSettles(l) ==
  /\ loads[l].pc = "perm"
  /\ \/ \* granted
        /\ loads' = [loads EXCEPT ![l].pc = "pos"]
        /\ lastOp' = Op("permissionGranted", TRUE, l)
        /\ UNCHANGED sink
        /\ UNCHANGED <<restaurants, loading, error, viewStart, currentIndex, liked,
                       now, scrollIndex, nLoads, events, history>>
     \/ PermissionDenied(l)
     \/ \E e \in Thrown : LoadFails(l, e)

\* await Location.getCurrentPositionAsync() settles; on success fetchRestaurants
\* is called
PositionSettles(l) ==
  /\ loads[l].pc = "pos"
  /\ \/ /\ loads' = [loads EXCEPT ![l].pc = "fetch", ![l].fetchCalled = TRUE]
        /\ lastOp' = Op("positionFound", TRUE, l)
        /\ UNCHANGED sink
        /\ UNCHANGED <<restaurants, loading, error, viewStart, currentIndex, liked,
                       now, scrollIndex, nLoads, events, history>>
     \/ \E e \in Thrown : LoadFails(l, e)

\* setRestaurants(data) and the finally block
LoadSucceeds(l, data) ==
  /\ restaurants' = data
  /\ liked' = LikedAfter(data)
  /\ scrollIndex' = ScrollAfter(data)
  /\ loading' = FALSE
  /\ loads' = [loads EXCEPT ![l].pc = "done", ![l].outcome = "success",
                            ![l].wrote = data]
  /\ lastOp' = Op("loadSucceeded", TRUE, l)
  /\ UNCHANGED sink
  /\ session' = Session(now, "load")
  /\ reports' = <<>>
  /\ onlyReports' = (Len(data) > 0)
  /\ UNCHANGED <<error, viewStart, currentIndex, now, nLoads, events>>

\* await fetchRestaurants(latitude, longitude) settles
FetchSettles(l) ==
  /\ loads[l].pc = "fetch"
  /\ \/ \E response \in Responses :
          LET r == FetchRestaurants(response)
          IN  IF r.throws THEN LoadFails(l, r.thrown) ELSE LoadSucceeds(l, r.data)
     \/ \E e \in Thrown : LoadFails(l, e)

\* ------------------------------------------------------------- the tracker
Event(placeId, action, timeSpentMs) ==
  [itemId |-> placeId, action |-> action, dwellMs |-> timeSpentMs]

\* the dwell read after the clock was reset
TimeSpentMs_AfterReset == now - now

\* const timeSpentMs = Date.now() - viewStartRef.current
TimeSpentMs == now - viewStart

\* recordViewEnd that returns early on a dwell of 0 as well
RecordViewEnd_DropsZeroDwell(index, action) ==
  IF ~ValidIndex(restaurants, index) \/ TimeSpentMs = 0
    THEN events
    ELSE Append(events, Event(At(restaurants, index), action, TimeSpentMs))

\* recordViewEnd(index, action): the calls of recordInteraction after it
RecordViewEnd(index, action) ==
  IF ~ValidIndex(restaurants, index)
    THEN events
    ELSE Append(events, Event(At(restaurants, index), action, TimeSpentMs))

\* a viewable item as the FlatList reports it: {index: number | null}
ViewToken(isNull, index) == [isNull |-> isNull, index |-> index]

\* the test without its optional chaining and null check: only the empty list
\* is ignored, and a null index is taken for index 0
NoVisibleIndex_EmptyOnly(viewableItems) == Len(viewableItems) = 0

\* visible?.index == null
NoVisibleIndex(viewableItems) == Len(viewableItems) = 0 \/ viewableItems[1].isNull

\* the handler without its prevIndex !== newIndex test
IndexChanged_Always(prevIndex, newIndex) == TRUE

\* prevIndex !== newIndex
IndexChanged(prevIndex, newIndex) == prevIndex # newIndex

\* the report sequence after a report of newIndex
ReportsNoted(newIndex) ==
  IF /\ onlyReports
     /\ ValidIndex(restaurants, newIndex)
     /\ (Len(reports) = 0 \/ reports[Len(reports)].index # newIndex)
    THEN /\ reports' = Append(reports, Report(newIndex, now))
         /\ UNCHANGED onlyReports
    ELSE /\ reports' = <<>>
         /\ onlyReports' = FALSE

\* the call as lastOp records it: the argument of handleViewableItemsChanged, an
\* empty list, a first item whose index is null, or a first item with an index
ReportOp(viewableItems) ==
  IF Len(viewableItems) = 0 THEN Op("viewableNone", FALSE, 0)
  ELSE IF viewableItems[1].isNull THEN Op("viewableNull", FALSE, 0)
  ELSE Op("viewable", TRUE, viewableItems[1].index)

\* handleViewableItemsChanged({viewableItems})
HandleViewableItemsChanged(viewableItems) ==
  /\ lastOp' = ReportOp(viewableItems)
  /\ UNCHANGED sink
  /\ IF NoVisibleIndex(viewableItems)
       THEN UNCHANGED <<events, currentIndex, viewStart, history>>
       ELSE LET newIndex == viewableItems[1].index
                prevIndex == currentIndex
            IN  /\ ReportsNoted(newIndex)
                /\ IF IndexChanged(prevIndex, newIndex)
                     THEN /\ events' = RecordViewEnd(prevIndex, "skip")
                          /\ currentIndex' = newIndex
                          /\ viewStart' = now
                          /\ session' = Session(now, "report")
                     ELSE UNCHANGED <<events, currentIndex, viewStart, session>>
  /\ UNCHANGED <<restaurants, loading, error, liked, now, scrollIndex, loads, nLoads>>

\* a like or unlike ends the report sequence and starts a session
ActionNoted(index) ==
  /\ reports' = <<>>
  /\ onlyReports' = FALSE
  /\ session' = IF ValidIndex(restaurants, index) THEN Session(now, "action") ELSE session

\* handleLike that resets the clock without recording the view end
HandleLike_NoRecord(index) ==
  /\ events' = events
  /\ viewStart' = now
  /\ lastOp' = Op("like", TRUE, index)
  /\ UNCHANGED sink
  /\ ActionNoted(index)

\* handleLike that records the view end of the current index, not of its card
HandleLike_CurrentIndex(index) ==
  /\ events' = RecordViewEnd(currentIndex, "like")
  /\ viewStart' = now
  /\ lastOp' = Op("like", TRUE, index)
  /\ UNCHANGED sink
  /\ ActionNoted(index)

\* handleLike(index)
HandleLike(index) ==
  /\ events' = RecordViewEnd(index, "like")
  /\ viewStart' = now
  /\ lastOp' = Op("like", TRUE, index)
  /\ UNCHANGED sink
  /\ ActionNoted(index)

\* handleUnlike(index)
HandleUnlike(index) ==
  /\ events' = RecordViewEnd(index, "unlike")
  /\ viewStart' = now
  /\ lastOp' = Op("unlike", TRUE, index)
  /\ UNCHANGED sink
  /\ ActionNoted(index)

\* handleToggleLike run from a closure that still holds liked = false
HandleToggleLike_StaleLiked(index) ==
  LET id == At(restaurants, index)
  IN  /\ liked' = [liked EXCEPT ![id] = TRUE]
      /\ HandleLike(index)
      /\ UNCHANGED <<restaurants, loading, error, currentIndex, now, scrollIndex,
                     loads, nLoads>>

\* ActionBar.handleToggleLike of the card renderItem made for `index`
HandleToggleLike(index) ==
  LET id == At(restaurants, index)
  IN  /\ IF liked[id]
           THEN /\ liked' = [liked EXCEPT ![id] = FALSE]
                /\ HandleUnlike(index)
           ELSE /\ liked' = [liked EXCEPT ![id] = TRUE]
                /\ HandleLike(index)
      /\ UNCHANGED <<restaurants, loading, error, currentIndex, now, scrollIndex,
                     loads, nLoads>>

\* a share handler that counts as a user action and restarts the dwell clock
HandleShare_ResetsClock(index) ==
  /\ lastOp' = Op("share", TRUE, index)
  /\ UNCHANGED sink
  /\ viewStart' = now
  /\ UNCHANGED <<restaurants, loading, error, currentIndex, liked, now,
                 scrollIndex, loads, nLoads, events, history>>

\* handleShare(restaurant): Share.share only
HandleShare(index) ==
  /\ lastOp' = Op("share", TRUE, index)
  /\ UNCHANGED sink
  /\ UNCHANGED <<restaurants, loading, error, viewStart, currentIndex, liked, now,
                 scrollIndex, loads, nLoads, events, history>>

\* --------------------------------------------------------- recordInteraction
\* session.user.id of the signed-in user; "none" stands for no session or no user
UserId == "user-1"
SessionResults == {"none", UserId}

\* the object passed to insert()
Row(userId, placeId, action, timeSpentMs) ==
  [user_id |-> userId, place_id |-> placeId, action |-> action,
   time_spent_ms |-> timeSpentMs]

\* recordInteraction without its `if (!session?.user) return`
HasUser_Always(result) == TRUE

\* session?.user
HasUser(result) == result # "none"

\* every program variable but the two of the sink and lastOp
program == <<restaurants, loading, error, viewStart, currentIndex, liked, now,
             scrollIndex, loads, nLoads, events, history>>

\* what lastOp records of a settled getSession
SessionOp(result, k) ==
  IF result = "none" THEN Op("noSession", TRUE, k) ELSE Op("sessionFound", TRUE, k)

\* await supabase.auth.getSession() of the k-th call settles: the call returns
\* when there is no user, and calls insert() when there is one
SessionSettles(k) ==
  /\ k \in 1..Len(events)
  /\ writes[k] = "session"
  /\ \/ \E result \in SessionResults :
          /\ lastOp' = SessionOp(result, k)
          /\ IF HasUser(result)
               THEN /\ inserts' = Append(inserts,
                                         [call |-> k,
                                          row |-> Row(result, events[k].itemId,
                                                      events[k].action,
                                                      events[k].dwellMs)])
                    /\ writes' = [writes EXCEPT ![k] = "insert"]
               ELSE /\ writes' = [writes EXCEPT ![k] = "done"]
                    /\ UNCHANGED inserts
     \/ /\ writes' = [writes EXCEPT ![k] = "done"]
        /\ lastOp' = Op("sessionRejected", TRUE, k)
        /\ UNCHANGED inserts
  /\ UNCHANGED program

\* the ways an awaited insert() settles: resolved without an error, resolved
\* with an error, rejected
InsertOutcomes == {"insertStored", "insertFailed", "insertRejected"}

\* a failed or rejected insert shown to the user as the screen's error
InsertSettles_SurfacesError(k) ==
  /\ writes[k] = "insert"
  /\ writes' = [writes EXCEPT ![k] = "done"]
  /\ \E outcome \in InsertOutcomes :
       /\ lastOp' = Op(outcome, TRUE, k)
       /\ error' = IF outcome = "insertStored" THEN error ELSE DefaultLoadMessage
  /\ UNCHANGED <<restaurants, loading, viewStart, currentIndex, liked, now,
                 scrollIndex, loads, nLoads, events, history, inserts>>

\* await supabase.from('restaurant_interactions').insert(...) of the k-th call
\* settles: its result is not looked at, a rejection is not caught
InsertSettles(k) ==
  /\ writes[k] = "insert"
  /\ writes' = [writes EXCEPT ![k] = "done"]
  /\ \E outcome \in InsertOutcomes : lastOp' = Op(outcome, TRUE, k)
  /\ UNCHANGED <<program, inserts>>

\* an awaited call of some call of recordInteraction settles
SinkSettles ==
  \E k \in 1..MaxEvents : SessionSettles(k) \/ InsertSettles(k)

\* ------------------------------------------------- the screen as the user has it
\* a reload control that every screen offers
Retry_AnyScreen == LoadRestaurants

\* the Retry text of the error screen
Retry ==
  /\ Screen = "error"
  /\ LoadRestaurants

\* a swipe: the paging FlatList moves one page
Scroll ==
  /\ Screen = "list"
  /\ \E d \in {-1, 1} :
       /\ ValidIndex(restaurants, scrollIndex + d)
       /\ scrollIndex' = scrollIndex + d
  /\ lastOp' = Op("scroll", FALSE, 0)
  /\ UNCHANGED sink
  /\ UNCHANGED <<restaurants, loading, error, viewStart, currentIndex, liked, now,
                 loads, nLoads, events, history>>

\* onViewableItemsChanged of the FlatList: the page scrolled to once it passes
\* the viewability thresholds, or nothing viewable (an empty list, or a first
\* item whose index is null, which the ViewToken type allows)
ViewableItemsChanged ==
  /\ Screen = "list"
  /\ Len(events) < MaxEvents
  /\ \E viewableItems \in {<<>>, <<ViewToken(TRUE, 0)>>,
                            <<ViewToken(FALSE, scrollIndex)>>} :
       HandleViewableItemsChanged(viewableItems)

\* a tap on the heart of the card on screen
ToggleLike ==
  /\ Screen = "list"
  /\ Len(events) < MaxEvents
  /\ HandleToggleLike(scrollIndex)

\* a tap on the share button of the card on screen
Share ==
  /\ Screen = "list"
  /\ HandleShare(scrollIndex)

\* an awaited call of some invocation of loadRestaurants settles
Settle ==
  \E l \in 1..MaxLoads : PermissionSettles(l) \/ PositionSettles(l) \/ FetchSettles(l)

Next ==
  \/ Tick
  \/ Settle
  \/ Retry
  \/ Scroll
  \/ ViewableItemsChanged
  \/ ToggleLike
  \/ Share

Spec == Init /\ [][Next]_vars

\* the screen with the list left on its first page, where every awaited call of
\* a load settles at some time: resolved or rejected
NextFair ==
  \/ Tick
  \/ Settle
  \/ Retry
  \/ ViewableItemsChanged
  \/ ToggleLike
  \/ Share

SpecFair == Init /\ [][NextFair]_vars /\ WF_vars(Settle)

\* the like button of the loaded feed together with the calls of
\* recordInteraction its taps start
NextSink ==
  \/ Tick
  \/ Settle
  \/ ToggleLike
  \/ SinkSettles

SpecSink == Init /\ [][NextSink]_vars

\* ------------------------------------- the tracker's operations called directly
\* The operations of the tracker with any argument, whatever screen is
\* rendered: onDominantItemChanged with any report, onUserAction with any index.
TrackerIndices == 0..MaxFeedLen
TrackerReports ==
  {<<>>, <<ViewToken(TRUE, 0)>>} \cup {<<ViewToken(FALSE, i)>> : i \in TrackerIndices}

OnDominantItemChanged ==
  /\ Len(events) < MaxEvents
  /\ \E viewableItems \in TrackerReports : HandleViewableItemsChanged(viewableItems)

\* like/unlike handlers that also make the index they are called with current
OnUserAction_MakesCurrent ==
  /\ Len(events) < MaxEvents
  /\ \E index \in TrackerIndices :
       /\ HandleLike(index) \/ HandleUnlike(index)
       /\ currentIndex' = index
  /\ UNCHANGED <<restaurants, loading, error, liked, now, scrollIndex, loads, nLoads>>

OnUserAction ==
  /\ Len(events) < MaxEvents
  /\ \E index \in TrackerIndices : HandleLike(index) \/ HandleUnlike(index)
  /\ UNCHANGED <<restaurants, loading, error, currentIndex, liked, now, scrollIndex,
                 loads, nLoads>>

NextTracker ==
  \/ Tick
  \/ Settle
  \/ Retry
  \/ OnDominantItemChanged
  \/ OnUserAction

SpecTracker == Init /\ [][NextTracker]_vars

\* the handlers called directly while and after the mount's load runs; no retry
NextCalls ==
  \/ Tick
  \/ Settle
  \/ OnDominantItemChanged
  \/ OnUserAction

SpecCalls == Init /\ [][NextCalls]_vars

\* ------------------------------------------------------------ racing loads
\* loadRestaurants() called again whatever the screen shows, also while an
\* earlier invocation is still in flight
Reload == LoadRestaurants

NextRace ==
  \/ Next
  \/ Reload

SpecRace == Init /\ [][NextRace]_vars

\* ================================================================== claims
Last(s) == s[Len(s)]
IsReport(op) == op.name = "viewable" /\ op.hasIndex
IsUserAction(op) == op.name \in {"like", "unlike"}

\* C1: a report of a valid index newIndex that differs from currentIndex emits
\* exactly one event {feed[currentIndex].id, skip, now - viewStart}, computed
\* from the values held before the step, and leaves currentIndex = newIndex and
\* viewStart = now.
C1_SkipOnIndexChange ==
  [][ ( /\ IsReport(lastOp')
        /\ ValidIndex(restaurants, lastOp'.index)
        /\ lastOp'.index # currentIndex )
      => ( /\ ValidIndex(restaurants, currentIndex)
           /\ events' = Append(events, Event(At(restaurants, currentIndex), "skip",
                                             now - viewStart))
           /\ currentIndex' = lastOp'.index
           /\ viewStart' = now' ) ]_vars

\* a skip with a dwell above 0 was emitted by the report that made index 1 current
C1_Witness ==
  /\ IsReport(lastOp)
  /\ lastOp.index = 1
  /\ currentIndex = 1
  /\ viewStart = now
  /\ Len(events) = 1
  /\ events[1] = Event(At(restaurants, 0), "skip", now)
  /\ now > 0

\* C3: every step that changes currentIndex from i emits exactly one skip event
\* for index i in that step, and every step that resets viewStart emits exactly
\* one event.
ResetsViewStart ==
  \/ viewStart' # viewStart
  \/ IsUserAction(lastOp')
  \/ IsReport(lastOp') /\ lastOp'.index # currentIndex

C3_OneEventPerSessionEnd ==
  [][ /\ (currentIndex' # currentIndex) =>
           ( /\ ValidIndex(restaurants, currentIndex)
             /\ Len(events') = Len(events) + 1
             /\ SubSeq(events', 1, Len(events)) = events
             /\ Last(events').action = "skip"
             /\ Last(events').itemId = At(restaurants, currentIndex) )
      /\ ResetsViewStart =>
           ( /\ Len(events') = Len(events) + 1
             /\ SubSeq(events', 1, Len(events)) = events ) ]_vars

\* a like, then a scroll away: two resets of the clock, two events
C3_Witness ==
  /\ Len(events) = 2
  /\ events[1].action = "like"
  /\ events[2].action = "skip"
  /\ currentIndex # 0

\* C6: a report of the index that is already current emits nothing and leaves
\* currentIndex and viewStart alone, so the same report delivered again right
\* after itself changes nothing.
C6_SameIndexNoOp ==
  [][ /\ (IsReport(lastOp') /\ lastOp'.index = currentIndex) =>
           UNCHANGED <<events, currentIndex, viewStart, restaurants, liked>>
      /\ (IsReport(lastOp) /\ lastOp' = lastOp) =>
           UNCHANGED <<events, currentIndex, viewStart, restaurants, liked>> ]_vars

\* index 1 was reported again after it had become current: one event, old clock
C6_Witness ==
  /\ IsReport(lastOp)
  /\ lastOp.index = 1
  /\ currentIndex = 1
  /\ viewStart < now
  /\ Len(events) = 1

\* C2 (as claimed): a sequence [i0, ..., in] of valid reports, no two consecutive
\* ones equal, delivered to a freshly loaded feed emits exactly n skip events,
\* the k-th for feed[ik] with the time between report ik and report ik+1 as its
\* dwell, whatever i0 is.
C2_AsClaimed ==
  (onlyReports /\ Len(reports) >= 1) =>
    /\ Len(events) = Len(reports) - 1
    /\ \A k \in 1..(Len(reports) - 1) :
         /\ k <= Len(events)
         /\ events[k] = Event(At(restaurants, reports[k].index), "skip",
                              reports[k + 1].t - reports[k].t)

\* C2 (amended): such a sequence emits one skip event per report that differs
\* from the current index: n events when i0 = 0, the index current after the
\* load, and n + 1 when i0 # 0, the first then being the skip of feed[0]. The
\* event for the pair (ik, ik+1) is the skip of feed[ik]; its dwell is the time
\* between the two reports whenever report ik changed the index, and the skip
\* of feed[0] measures from the viewStart set at mount (time 0 of the model).
C2_SkipPerChangingReport ==
  (onlyReports /\ Len(reports) >= 1) =>
    LET lead == IF reports[1].index = 0 THEN 0 ELSE 1
    IN  /\ Len(events) = Len(reports) - 1 + lead
        /\ lead = 1 => events[1] = Event(At(restaurants, 0), "skip", reports[1].t)
        /\ \A k \in 1..(Len(reports) - 1) :
             /\ k + lead <= Len(events)
             /\ events[k + lead] =
                  Event(At(restaurants, reports[k].index), "skip",
                        IF k = 1 /\ lead = 0 THEN reports[2].t
                        ELSE reports[k + 1].t - reports[k].t)

\* the reports [1, 0] at different times on a fresh feed: two skip events
C2_Witness ==
  /\ onlyReports
  /\ Len(reports) = 2
  /\ reports[1].index = 1
  /\ reports[2].t > reports[1].t
  /\ Len(events) = 2

\* C4 (as claimed): a like or unlike on a valid index emits exactly one event
\* {feed[index].id, action, now - viewStart} and sets viewStart = now; so an
\* item shown at t0, liked at t1 and scrolled away at t2 yields like(t1 - t0)
\* and then skip(t2 - t1).
C4_AsClaimed ==
  [][ /\ (IsUserAction(lastOp') /\ ValidIndex(restaurants, lastOp'.index)) =>
           ( /\ events' = Append(events, Event(At(restaurants, lastOp'.index),
                                               lastOp'.name, now - viewStart))
             /\ viewStart' = now' )
      /\ ( /\ IsUserAction(lastOp')
           /\ lastOp'.index = currentIndex
           /\ session.by \in {"load", "report"} ) =>
           ( /\ Len(events') > 0
             /\ Last(events').dwellMs = now - session.start )
      /\ (IsReport(lastOp') /\ lastOp'.index # currentIndex /\ session.by = "action") =>
           ( /\ Len(events') > 0
             /\ Last(events').dwellMs = now - session.start ) ]_vars

\* C5 (as claimed): right after a successful load currentIndex = 0 and
\* viewStart is the time at which the load succeeded.
C5_AsClaimed ==
  lastOp.name = "loadSucceeded" => (currentIndex = 0 /\ viewStart = now)

\* C7: a toggle on a card with liked = false sets it and emits one like event,
\* a toggle on a card with liked = true clears it and emits one unlike event;
\* the like/unlike events of a card alternate, starting with like, and liked
\* is true exactly when their number is odd.
IsToggleEventOf(e, id) == e.itemId = id /\ e.action \in {"like", "unlike"}
ToggleEvents(id) == SelectSeq(events, LAMBDA e : IsToggleEventOf(e, id))

C7_ToggleAlternates ==
  /\ [](\A id \in PlaceIds :
          LET te == ToggleEvents(id)
          IN  /\ \A k \in 1..Len(te) :
                   te[k].action = IF k % 2 = 1 THEN "like" ELSE "unlike"
              /\ liked[id] <=> (Len(te) % 2 = 1))
  /\ [][ IsUserAction(lastOp') =>
           ( /\ ValidIndex(restaurants, lastOp'.index)
             /\ LET id == At(restaurants, lastOp'.index)
                IN  /\ liked' = [liked EXCEPT ![id] = ~liked[id]]
                    /\ lastOp'.name = IF liked[id] THEN "unlike" ELSE "like"
                    /\ Len(events') = Len(events) + 1
                    /\ SubSeq(events', 1, Len(events)) = events
                    /\ Last(events').itemId = id
                    /\ Last(events').action = lastOp'.name ) ]_vars

\* a card toggled twice: like, then unlike, and liked is false again
C7_Witness ==
  \E id \in PlaceIds :
    /\ ~liked[id]
    /\ Len(ToggleEvents(id)) = 2
    /\ lastOp.name = "unlike"

\* C8 (as claimed): every like or unlike event carries the id of the item that
\* is current at the moment of the tap.
C8_AsClaimed ==
  IsUserAction(lastOp) =>
    /\ Len(events) > 0
    /\ ValidIndex(restaurants, currentIndex)
    /\ Last(events).itemId = At(restaurants, currentIndex)

\* C8 (amended): every like or unlike event carries the id of the item whose
\* card was tapped (the card on screen, feed[index] for the index it was
\* rendered with), which is the current item whenever that card is the one last
\* reported dominant; its dwell is now - viewStart, the time since the clock
\* was last reset.
C8_EventOfTappedCard ==
  [][ IsUserAction(lastOp') =>
        ( /\ lastOp'.index = scrollIndex
          /\ ValidIndex(restaurants, lastOp'.index)
          /\ events' = Append(events, Event(At(restaurants, lastOp'.index),
                                            lastOp'.name, now - viewStart))
          /\ lastOp'.index = currentIndex =>
               Last(events').itemId = At(restaurants, currentIndex) ) ]_vars

\* a like tapped on card 1 while index 0 is still the current one
C8_Witness ==
  /\ lastOp = Op("like", TRUE, 1)
  /\ currentIndex = 0
  /\ Len(events) = 1
  /\ events[1].itemId = At(restaurants, 1)

\* C9 (as claimed): a report of an index outside the feed, a report while
\* currentIndex is outside the feed, and a like or unlike with an index outside
\* the feed each emit nothing and leave currentIndex and viewStart unchanged.
C9_AsClaimed ==
  [][ ( \/ IsReport(lastOp') /\ ~ValidIndex(restaurants, lastOp'.index)
        \/ IsReport(lastOp') /\ ~ValidIndex(restaurants, currentIndex)
        \/ IsUserAction(lastOp') /\ ~ValidIndex(restaurants, lastOp'.index) )
      => UNCHANGED <<events, currentIndex, viewStart>> ]_vars

\* C10: when a load ends in permission denial or in a failure, the feed is
\* empty, error is non-null and loading is false; a load that ended in
\* permission denial never called fetchRestaurants.
C10_FailedLoadState ==
  /\ lastOp.name \in {"loadFailed", "permissionDenied"} =>
       /\ restaurants = <<>>
       /\ error # NullError
       /\ loading = FALSE
       /\ loads[lastOp.index].pc = "done"
  /\ \A l \in 1..MaxLoads :
       loads[l].outcome = "denied" => (~loads[l].fetchCalled /\ loads[l].pc = "done")

\* a load denied permission, then a retry whose fetch failed
C10_Witness ==
  /\ lastOp = Op("loadFailed", TRUE, 2)
  /\ loads[1].outcome = "denied"
  /\ loads[2].fetchCalled
  /\ error = DefaultFetchMessage

\* C11: a report that names no index (an empty viewable list, or a first item
\* whose index is null) is ignored: no event is emitted and the feed,
\* currentIndex and viewStart (and the rest of the screen state) are unchanged.
IsEmptyReport(op) == op.name \in {"viewableNone", "viewableNull"}

C11_NullReportIgnored ==
  [][ IsEmptyReport(lastOp')
      => UNCHANGED <<events, restaurants, currentIndex, viewStart, loading,
                     error, liked>> ]_vars

C11_Witness ==
  /\ lastOp.name = "viewableNull"
  /\ currentIndex # 0
  /\ viewStart < now
  /\ Len(events) = 1

\* C15: sharing an item changes no state of the tracker or the screen (feed,
\* currentIndex, viewStart, loading, error, like marks) and emits no event.
C15_ShareChangesNothing ==
  [][ lastOp'.name = "share"
      => UNCHANGED <<restaurants, currentIndex, viewStart, loading, error,
                     liked, events>> ]_vars

C15_Witness ==
  /\ lastOp.name = "share"
  /\ viewStart < now
  /\ Len(events) > 0

\* C16: a like or unlike changes only the dwell clock: in every reachable state
\* and for every card index, currentIndex and the feed are the same before and
\* after the step, and viewStart is the time of the step.
C16_UserActionKeepsIndex ==
  [][ IsUserAction(lastOp')
      => /\ UNCHANGED <<currentIndex, restaurants>>
         /\ viewStart' = now ]_vars

C16_Witness ==
  /\ IsUserAction(lastOp)
  /\ lastOp.index # currentIndex
  /\ Len(events) > 0
  /\ viewStart = now
  /\ now > 0

\* C17: at most one load is in flight at any time: a load starts only at mount
\* and by Retry, and Retry is offered only when no load is in flight, loading
\* is false, error is set and the feed is empty.
C17_OneLoadInFlight ==
  [][ /\ Cardinality(InFlight') <= 1
      /\ lastOp'.name = "load"
           => /\ InFlight = {}
              /\ ~loading
              /\ ~Falsy(error)
              /\ restaurants = <<>>
              /\ InFlight' = {lastOp'.index} ]_vars

C17_Witness ==
  /\ lastOp.name = "load"
  /\ nLoads = 2
  /\ InFlight = {2}
  /\ loads[1].pc = "done"

\* C12: when two loads were in flight at the same time, the one that resolves
\* last determines the final state: once both have resolved, the feed is the
\* one that load wrote, and a successful last load leaves currentIndex = 0 and
\* viewStart = the time it resolved.
LoadEnded(op) == op.name \in {"loadSucceeded", "loadFailed", "permissionDenied"}

C12_AsClaimed ==
  (LoadEnded(lastOp) /\ InFlight = {} /\ loads[lastOp.index].raced)
    => /\ restaurants = loads[lastOp.index].wrote
       /\ lastOp.name = "loadSucceeded" => (currentIndex = 0 /\ viewStart = now)

\* C18: whenever no load is in flight, a non-null error implies an empty feed,
\* also when two loads overlap and resolve in either order.
C18_AsClaimed ==
  (InFlight = {} /\ error # NullError) => restaurants = <<>>

\* C19: provided every awaited call settles, every load that was started
\* finishes, and loading is true exactly while a load is in flight (every way
\* a load ends sets loading to false).
C19_LoadsFinish ==
  /\ \A l \in 1..MaxLoads : (l \in InFlight) ~> (loads[l].pc = "done")
  /\ [](loading <=> InFlight # {})

C19_Witness ==
  /\ LoadEnded(lastOp)
  /\ lastOp.index = 2
  /\ loads[1].outcome = "failed"
  /\ ~loading

\* C13: emitting an event is fire-and-forget. However a call of
\* recordInteraction goes on (no session, insert pending, stored, failed,
\* rejected), its steps change neither the tracker's state nor loading/error;
\* a like or unlike does the same to the tracker whatever the earlier writes
\* did and is never kept waiting by them; and no call issues more than one
\* insert.
IsSinkStep(op) ==
  op.name \in {"noSession", "sessionFound", "sessionRejected"} \cup InsertOutcomes
InsertsOf(k) == {i \in DOMAIN inserts : inserts[i].call = k}

C13_FireAndForget ==
  /\ [][ IsSinkStep(lastOp')
          => UNCHANGED <<restaurants, loading, error, viewStart, currentIndex,
                         liked, events>> ]_vars
  /\ [][ IsUserAction(lastOp')
          => /\ events' = Append(events, Event(At(restaurants, lastOp'.index),
                                               lastOp'.name, now - viewStart))
             /\ viewStart' = now
             /\ UNCHANGED <<writes, inserts, loading, error>> ]_vars
  /\ []((Screen = "list" /\ Len(events) < MaxEvents) => ENABLED ToggleLike)
  /\ [](\A k \in 1..MaxEvents : Cardinality(InsertsOf(k)) <= 1)

C13_Witness ==
  /\ lastOp.name = "insertRejected"
  /\ Len(events) = 2
  /\ writes[2] = "session"
  /\ error = NullError
  /\ ~loading

\* C14: a call of recordInteraction that finds no signed-in user writes
\* nothing and ends without an error; a call that finds one issues exactly one
\* insert, whose row carries the user's id and the item id, action and dwell
\* the call was made with.
C14_SessionGuardsInsert ==
  /\ [][ lastOp'.name = "noSession"
          => /\ inserts' = inserts
             /\ writes'[lastOp'.index] = "done"
             /\ error' = error ]_vars
  /\ [][ lastOp'.name = "sessionFound"
          => LET k == lastOp'.index
             IN  /\ InsertsOf(k) = {}
                 /\ inserts' = Append(inserts,
                                      [call |-> k,
                                       row |-> [user_id |-> UserId,
                                                place_id |-> events[k].itemId,
                                                action |-> events[k].action,
                                                time_spent_ms |-> events[k].dwellMs]]) ]_vars
  /\ [][ \A k \in 1..MaxEvents :
            InsertsOf(k) # {} => (InsertsOf(k))' = InsertsOf(k) ]_vars

C14_Witness ==
  /\ lastOp.name = "noSession"
  /\ lastOp.index = 1
  /\ Len(inserts) = 1
  /\ inserts[1].call = 2
  /\ inserts[1].row.time_spent_ms > 0

\* C20: events reach the sink in the order they were emitted: the insert of
\* an earlier event is issued before the insert of a later one, however the
\* session lookups of the calls interleave.
C20_AsClaimed ==
  \A i, j \in DOMAIN inserts : i < j => inserts[i].call < inserts[j].call

====
